---- MODULE Spec2Model ----
(***************************************************************************)
(* The POST /api/v1/hackrx/run endpoint of the RAG document Q&A service,   *)
(* in its two variants: src/main.py (pydantic JSON body, answers with a    *)
(* sources block) and src/improved_main.py (raw Request, JSON or multipart *)
(* form, plain answers).  One worker processes one request; the external   *)
(* collaborators (HTTP fetch, temp file, SimpleDirectoryReader,            *)
(* VectorStoreIndex, query engine) succeed or raise nondeterministically.  *)
(***************************************************************************)
EXTENDS Integers, Sequences, FiniteSets, TLC

VARIABLES app, req, pc, questions, document_url, file, source,
          tmp_file_path, documents, i, answers_with_sources, response,
          fs, nextTmp, ops

vars == <<app, req, pc, questions, document_url, file, source,
          tmp_file_path, documents, i, answers_with_sources, response,
          fs, nextTmp, ops>>

(* ------------------------------ bounds --------------------------------- *)
\* workers of the hosting server (one request per worker)
NumWorkers == 2
\* longest JSON question list a request carries
MaxQuestions == 2
\* most question fields a multipart form carries
MaxFields == 2

Workers == 1..NumWorkers

(* --------------------------- Python values ----------------------------- *)
\* A Python value as the handler sees it: its type, its text, its elements.
Str(s) == [ty |-> "str", s |-> s, items |-> <<>>]
Num(s) == [ty |-> "int", s |-> s, items |-> <<>>]
None == [ty |-> "none", s |-> "", items |-> <<>>]
\* a key that a dict or form does not hold, a header that was not sent
Missing == [ty |-> "missing", s |-> "", items |-> <<>>]
List(xs) == [ty |-> "list", s |-> "", items |-> xs]
UploadFile(name) == [ty |-> "upload", s |-> name, items |-> <<>>]

\* bool(v)
Truthy(v) ==
    CASE v.ty = "none" -> FALSE
      [] v.ty = "missing" -> FALSE
      [] v.ty = "str" -> v.s # ""
      [] v.ty = "int" -> v.s # "0"
      [] v.ty = "list" -> v.items # <<>>
      [] OTHER -> TRUE

\* a or b
PyOr(a, b) == IF Truthy(a) THEN a ELSE b

\* d.get(key) / d.get(key, default) on a parsed JSON object
DictGet(d, key, default) == IF d[key].ty = "missing" THEN default ELSE d[key]

\* s.startswith(("http://", "https://")) on the document strings used here
StartsWithHttp(s) == s \in {"http://h/e.pdf", "https://h/d.pdf"}

\* "application/json" in content_type, "multipart/form-data" in content_type
IsJsonType(ct) == ct \in {"application/json", "application/json; charset=utf-8"}
IsMultipartType(ct) == ct \in {"multipart/form-data; boundary=x"}

\* question[:100] raises TypeError unless the value can be sliced
Sliceable(q) == q.ty \in {"str", "list"}

(* ------------------------------ requests ------------------------------ *)
SeqsUpTo(S, n) == UNION {[1..k -> S] : k \in 0..n}

\* the secret of the deployment and the header value built from it
API_AUTH_TOKEN == "s3cr3t"
expected_token == Str("Bearer s3cr3t")

Authorizations == {Missing, Str("Bearer wrong"), expected_token}
ContentTypes == {"application/json", "multipart/form-data; boundary=x",
                 "text/plain", ""}

QuestionItems == {Str("q1"), Str("q2"), Num("7")}
JsonQuestions ==
    {Missing, None, Str("q1")}
        \cup {List(xs) : xs \in SeqsUpTo(QuestionItems, MaxQuestions)}
JsonDocuments ==
    {Missing, Str(""), Str("https://h/d.pdf"), Str("./Test_Doc_2.pdf"), Num("5")}
JsonDocumentUrls == {Missing, Str("http://h/e.pdf")}

NoData == [isDict |-> FALSE, questions |-> Missing, documents |-> Missing,
           document_url |-> Missing]
JsonObjects ==
    [isDict : {TRUE}, questions : JsonQuestions, documents : JsonDocuments,
     document_url : JsonDocumentUrls]

\* the text of a form field that is a JSON-encoded list of two questions
JsonListText == "[\"q1\", \"q2\"]"
FormQuestionKeys == {"questions", "question1", "question2"}
FormQuestionValues == {Str("q1"), Str("q2"), Str(JsonListText), Str("7")}
FormQuestionFields == [key : FormQuestionKeys, value : FormQuestionValues]
FormDocumentFields ==
    {<<>>, <<[key |-> "document_url", value |-> Str("https://h/d.pdf")]>>,
     <<[key |-> "document_url", value |-> Str("ftp://h/d.pdf")]>>}
FormFileFields ==
    {<<>>, <<[key |-> "file", value |-> UploadFile("d.pdf")]>>,
     <<[key |-> "file", value |-> Str("d.pdf")]>>}
Forms ==
    {qs \o d \o f : qs \in SeqsUpTo(FormQuestionFields, MaxFields),
                    d \in FormDocumentFields, f \in FormFileFields}

\* a request body: bytes that do not parse, a parsed JSON value, a parsed form
MalformedBody == [kind |-> "malformed", data |-> NoData, form |-> <<>>]
JsonBodies ==
    {MalformedBody, [kind |-> "json", data |-> NoData, form |-> <<>>]}
        \cup {[kind |-> "json", data |-> d, form |-> <<>>] : d \in JsonObjects}
FormBodies ==
    {MalformedBody} \cup {[kind |-> "form", data |-> NoData, form |-> f] : f \in Forms}
BodiesOf(ct) == IF IsMultipartType(ct) THEN FormBodies ELSE JsonBodies

Requests ==
    UNION {[authorization : Authorizations, content_type : {ct}, body : BodiesOf(ct)]
               : ct \in ContentTypes}
NoRequest == [authorization |-> Missing, content_type |-> "", body |-> MalformedBody]

(* -------------------------- form and JSON parsing ---------------------- *)
\* key in form
FormHas(form, key) == \E k \in 1..Len(form) : form[k].key = key

\* form[key]: the multi-dict keeps, for a repeated key, the value sent last
FormGetItem(form, key) ==
    LET last == CHOOSE k \in 1..Len(form) :
                    /\ form[k].key = key
                    /\ \A j \in (k + 1)..Len(form) : form[j].key # key
    IN form[last].value

\* form.get(key)
FormGet(form, key) == IF FormHas(form, key) THEN FormGetItem(form, key) ELSE None

\* form.items(): one pair per key, keys in the order first sent
RECURSIVE FormItemsFrom(_, _)
FormItemsFrom(form, k) ==
    IF k > Len(form) THEN <<>>
    ELSE IF \E j \in 1..(k - 1) : form[j].key = form[k].key
         THEN FormItemsFrom(form, k + 1)
         ELSE <<[key |-> form[k].key, value |-> FormGetItem(form, form[k].key)]>>
                  \o FormItemsFrom(form, k + 1)
FormItems(form) == FormItemsFrom(form, 1)

\* key.startswith("question")
StartsWithQuestion(key) == key \in {"questions", "question1", "question2"}

\* json.loads(text): the value, or ok = FALSE when it raises
JsonLoads(text) ==
    CASE text = JsonListText -> [ok |-> TRUE, val |-> List(<<Str("q1"), Str("q2")>>)]
      [] text = "7" -> [ok |-> TRUE, val |-> Num("7")]
      [] OTHER -> [ok |-> FALSE, val |-> None]

\* the values of the fields whose key starts with "question", in items() order
RECURSIVE PrefixedValues(_)
PrefixedValues(items) ==
    IF items = <<>> THEN <<>>
    ELSE (IF StartsWithQuestion(Head(items).key) THEN <<Head(items).value>> ELSE <<>>)
             \o PrefixedValues(Tail(items))

\* the question list read from a form
FormQuestions(form) ==
    IF FormHas(form, "questions")
    THEN LET questions_raw == FormGetItem(form, "questions")
         IN IF questions_raw.ty # "str" THEN List(<<questions_raw>>)
            ELSE IF JsonLoads(questions_raw.s).ok THEN JsonLoads(questions_raw.s).val
            ELSE List(<<questions_raw>>)
    ELSE List(PrefixedValues(FormItems(form)))

(* ------------------------------ responses ------------------------------ *)
NoResponse == [status |-> 0, body |-> "none", detail |-> "", answers |-> <<>>]
HTTPException(status_code, detail) ==
    [status |-> status_code, body |-> "detail", detail |-> detail, answers |-> <<>>]
HackathonResponse(answers) ==
    [status |-> 200, body |-> "answers", detail |-> "", answers |-> answers]
\* the framework's answer to a request that fails its declared parameters
RequestValidationError ==
    [status |-> 422, body |-> "detail", detail |-> "validation error", answers |-> <<>>]

\* what the parsing steps hand on: an error response, or the parsed fields
Raise(resp) == [resp |-> resp, questions |-> None, document_url |-> None, file |-> None]
Parsed(qs, url, f) ==
    [resp |-> NoResponse, questions |-> qs, document_url |-> url, file |-> f]

\* any exception that reaches the handler's last except clause
InternalError == HTTPException(500, "Internal server error")

(* ------------------- before the handler: the framework ----------------- *)
\* validate_token: the response it raises, or NoResponse when it passes
validate_token(authorization) ==
    IF authorization # expected_token
    THEN HTTPException(401, "Unauthorized")
    ELSE NoResponse

\* improved_main.py: the only declared parameter is the required header
ResolveImproved(rq) ==
    IF rq.authorization.ty = "missing" THEN RequestValidationError
    ELSE validate_token(rq.authorization)

\* questions: List[str], documents: str
ValidHackathonRequest(d) ==
    /\ d.isDict
    /\ d.documents.ty = "str"
    /\ d.questions.ty = "list"
    /\ \A k \in 1..Len(d.questions.items) : d.questions.items[k].ty = "str"

\* main.py: the body is read first (as JSON when the content type says so, and,
\* when lenient, also when no content type was sent), then the header and the
\* dependency are resolved, then the body is validated as a HackathonRequest
ResolveMain(rq, lenient) ==
    LET asJson == IsJsonType(rq.content_type) \/ (rq.content_type = "" /\ lenient)
    IN IF asJson /\ rq.body.kind # "json" THEN RequestValidationError
       ELSE IF rq.authorization.ty = "missing" THEN RequestValidationError
       ELSE IF validate_token(rq.authorization) # NoResponse
            THEN validate_token(rq.authorization)
       ELSE IF ~asJson THEN RequestValidationError
       ELSE IF ~ValidHackathonRequest(rq.body.data) THEN RequestValidationError
       ELSE NoResponse

(* --------------------- the handler: reading the request ----------------- *)
\* improved_main.py: content type, body, question list
ReadImproved(rq) ==
    IF IsJsonType(rq.content_type)
    THEN IF rq.body.kind # "json" \/ ~rq.body.data.isDict THEN Raise(InternalError)
         ELSE Parsed(DictGet(rq.body.data, "questions", List(<<>>)),
                     PyOr(DictGet(rq.body.data, "documents", None),
                          DictGet(rq.body.data, "document_url", None)),
                     None)
    ELSE IF IsMultipartType(rq.content_type)
    THEN IF rq.body.kind # "form" THEN Raise(InternalError)
         ELSE Parsed(FormQuestions(rq.body.form),
                     FormGet(rq.body.form, "document_url"),
                     FormGet(rq.body.form, "file"))
    ELSE Raise(HTTPException(400,
                 "Content-Type must be application/json or multipart/form-data"))

\* if not questions or not isinstance(questions, list)
ValidateQuestions(p) ==
    IF p.resp # NoResponse THEN p
    ELSE IF ~Truthy(p.questions) \/ p.questions.ty # "list"
         THEN Raise(HTTPException(400, "Questions must be provided as a non-empty list"))
         ELSE p

ParseImproved(rq) == ValidateQuestions(ReadImproved(rq))

\* main.py: the validated model's fields, no further check
ParseMain(rq) == Parsed(rq.body.data.questions, rq.body.data.documents, None)

(* ------------------- the handler: choosing the document ----------------- *)
NoDocument ==
    HTTPException(400,
        "No valid document provided. Provide either a file upload or a valid document URL.")

\* a selection that looks at the URL before the upload
SelectImprovedUrlFirst(f, url) ==
    IF Truthy(url) /\ url.ty = "str" /\ StartsWithHttp(url.s)
    THEN [resp |-> NoResponse, source |-> "url"]
    ELSE IF f # None
    THEN IF f.ty # "upload" THEN [resp |-> InternalError, source |-> "none"]
         ELSE [resp |-> NoResponse, source |-> "upload"]
    ELSE [resp |-> NoDocument, source |-> "none"]

\* improved_main.py: upload first, then URL, else no document
SelectImproved(f, url) ==
    IF f # None
    THEN IF f.ty # "upload" THEN [resp |-> InternalError, source |-> "none"]
         ELSE [resp |-> NoResponse, source |-> "upload"]
    ELSE IF Truthy(url)
    THEN IF url.ty # "str" THEN [resp |-> InternalError, source |-> "none"]
         ELSE IF StartsWithHttp(url.s) THEN [resp |-> NoResponse, source |-> "url"]
         ELSE [resp |-> NoDocument, source |-> "none"]
    ELSE [resp |-> NoDocument, source |-> "none"]

\* main.py: a URL, else the string is taken as a local file path
SelectMain(f, url) ==
    IF StartsWithHttp(url.s) THEN [resp |-> NoResponse, source |-> "url"]
    ELSE [resp |-> NoResponse, source |-> "path"]

\* a load whose failure is left to the handler's last except clause
LoadFailedAsInternal(src) == InternalError
\* the except clause around the load
LoadFailed(src) ==
    IF src = "upload" THEN HTTPException(400, "Failed to read uploaded file")
    ELSE HTTPException(400, "Failed to load document from URL")

\* an index failure that is swallowed and answered with an empty answer list
IndexFailedAsEmptyAnswers == HackathonResponse(<<>>)
\* the except clause around the index construction
IndexFailed == HTTPException(500, "Failed to create document index")

(* ------------------------- the handler: answers ------------------------- *)
Answer(question, withSources) ==
    [kind |-> "answer", q |-> question, sources |-> withSources]
ErrorAnswer(question) ==
    [kind |-> "error", q |-> question, sources |-> FALSE]

\* the try branch of the loop body
OnQuestionAnswered(answers, question, withSources) ==
    Append(answers, Answer(question, withSources))
\* a loop whose except branch swallows the failure and appends nothing
OnQuestionErrorDropped(answers, question) == answers
\* the except branch of the loop body
OnQuestionError(answers, question) == Append(answers, ErrorAnswer(question))

(* ------------------------------- state --------------------------------- *)
Apps == {"main", "improved"}
Op(name, n, outcome) == [op |-> name, n |-> n, outcome |-> outcome]

\* One request has arrived at worker 1; the other workers are idle.
Init ==
    /\ app \in Apps
    /\ \E rq \in Requests :
          req = [r \in Workers |-> IF r = 1 THEN rq ELSE NoRequest]
    /\ pc = [r \in Workers |-> IF r = 1 THEN "dispatch" ELSE "idle"]
    /\ questions = [r \in Workers |-> None]
    /\ document_url = [r \in Workers |-> None]
    /\ file = [r \in Workers |-> None]
    /\ source = [r \in Workers |-> "none"]
    /\ tmp_file_path = [r \in Workers |-> 0]
    /\ documents = [r \in Workers |-> <<>>]
    /\ i = [r \in Workers |-> 0]
    /\ answers_with_sources = [r \in Workers |-> <<>>]
    /\ response = [r \in Workers |-> NoResponse]
    /\ fs = {}
    /\ nextTmp = 1
    /\ ops = [r \in Workers |-> <<>>]

\* the request ends with this response
Finish(r, resp) ==
    /\ response' = [response EXCEPT ![r] = resp]
    /\ pc' = [pc EXCEPT ![r] = "done"]

Goto(r, label) ==
    /\ pc' = [pc EXCEPT ![r] = label]
    /\ UNCHANGED response

\* the worker called an external collaborator, with this outcome
Did(r, name, n, outcome) ==
    ops' = [ops EXCEPT ![r] = Append(@, Op(name, n, outcome))]

(* ------------------------------ actions --------------------------------- *)
\* the framework resolves the declared parameters and the dependency
Dispatch(r) ==
    /\ pc[r] = "dispatch"
    /\ \E lenient \in BOOLEAN :
          LET resp == IF app = "main" THEN ResolveMain(req[r], lenient)
                      ELSE ResolveImproved(req[r])
          IN IF resp = NoResponse THEN Goto(r, "handler") ELSE Finish(r, resp)
    /\ UNCHANGED <<app, req, questions, document_url, file, source, tmp_file_path,
                   documents, i, answers_with_sources, fs, nextTmp, ops>>

\* the handler reads content type, body and question list
ParseRequest(r) ==
    /\ pc[r] = "handler"
    /\ LET p == IF app = "main" THEN ParseMain(req[r]) ELSE ParseImproved(req[r])
       IN IF p.resp # NoResponse
          THEN Finish(r, p.resp)
               /\ UNCHANGED <<questions, document_url, file>>
          ELSE Goto(r, "select")
               /\ questions' = [questions EXCEPT ![r] = p.questions]
               /\ document_url' = [document_url EXCEPT ![r] = p.document_url]
               /\ file' = [file EXCEPT ![r] = p.file]
    /\ UNCHANGED <<app, req, source, tmp_file_path, documents, i,
                   answers_with_sources, fs, nextTmp, ops>>

\* the handler picks the upload, the URL, the local path or no document
SelectDocument(r) ==
    /\ pc[r] = "select"
    /\ LET sel == IF app = "main" THEN SelectMain(file[r], document_url[r])
                  ELSE SelectImproved(file[r], document_url[r])
       IN IF sel.resp # NoResponse
          THEN Finish(r, sel.resp) /\ UNCHANGED source
          ELSE /\ source' = [source EXCEPT ![r] = sel.source]
               /\ Goto(r, CASE sel.source = "url" -> "fetch"
                             [] sel.source = "upload" -> "tmpfile"
                             [] OTHER -> "extract")
    /\ UNCHANGED <<app, req, questions, document_url, file, tmp_file_path,
                   documents, i, answers_with_sources, fs, nextTmp, ops>>

\* requests.get(document_url); response.raise_for_status()
Fetch(r) ==
    /\ pc[r] = "fetch"
    /\ \E outcome \in {"ok", "network_error", "status_404"} :
          /\ Did(r, "fetch", 0, outcome)
          /\ IF outcome = "ok" THEN Goto(r, "tmpfile")
             ELSE Finish(r, LoadFailed(source[r]))
    /\ UNCHANGED <<app, req, questions, document_url, file, source, tmp_file_path,
                   documents, i, answers_with_sources, fs, nextTmp>>

\* a temporary file at one fixed path, whatever files exist
FixedTempName(next) == 1
\* NamedTemporaryFile picks a name that no existing file has
NewTempName(next) == next

\* with NamedTemporaryFile(delete=False) as tmp_file: tmp_file.write(...)
WriteTempFile(r) ==
    /\ pc[r] = "tmpfile"
    /\ \E outcome \in {"ok", "create_fails", "write_fails"} :
          IF outcome = "create_fails"
          THEN /\ Did(r, "tmpfile", 0, outcome)
               /\ Finish(r, LoadFailed(source[r]))
               /\ UNCHANGED <<fs, nextTmp, tmp_file_path>>
          ELSE /\ fs' = fs \cup {[id |-> NewTempName(nextTmp), owner |-> r]}
               /\ nextTmp' = nextTmp + 1
               /\ Did(r, "tmpfile", NewTempName(nextTmp), outcome)
               /\ IF outcome = "ok"
                  THEN /\ tmp_file_path' =
                             [tmp_file_path EXCEPT ![r] = NewTempName(nextTmp)]
                       /\ Goto(r, "extract")
                  ELSE /\ UNCHANGED tmp_file_path
                       /\ Finish(r, LoadFailed(source[r]))
    /\ UNCHANGED <<app, req, questions, document_url, file, source,
                   documents, i, answers_with_sources>>

\* SimpleDirectoryReader(input_files=[path]).load_data(), then os.unlink(path)
Extract(r) ==
    /\ pc[r] = "extract"
    /\ \E outcome \in {"ok", "raises"} :
          /\ (source[r] = "path" /\ document_url[r].s = "") => (outcome = "raises")
          /\ Did(r, "extract", tmp_file_path[r], outcome)
          /\ IF outcome = "ok"
             THEN /\ documents' = [documents EXCEPT ![r] = <<"p1", "p2">>]
                  /\ fs' = IF source[r] = "path" THEN fs
                           ELSE {f \in fs : f.id # tmp_file_path[r]}
                  /\ Goto(r, "index")
             ELSE /\ UNCHANGED <<documents, fs>>
                  /\ Finish(r, LoadFailed(source[r]))
    /\ UNCHANGED <<app, req, questions, document_url, file, source, tmp_file_path,
                   i, answers_with_sources, nextTmp>>

\* VectorStoreIndex.from_documents(documents)
BuildIndex(r) ==
    /\ pc[r] = "index"
    /\ \E outcome \in {"ok", "raises"} :
          /\ Did(r, "index", 0, outcome)
          /\ IF outcome = "ok" THEN Goto(r, "engine") ELSE Finish(r, IndexFailed)
    /\ UNCHANGED <<app, req, questions, document_url, file, source, tmp_file_path,
                   documents, i, answers_with_sources, fs, nextTmp>>

\* index.as_query_engine(...); answers_with_sources = []
CreateEngine(r) ==
    /\ pc[r] = "engine"
    /\ \E outcome \in {"ok", "raises"} :
          /\ Did(r, "engine", 0, outcome)
          /\ IF outcome = "ok"
             THEN /\ Goto(r, "loop")
                  /\ i' = [i EXCEPT ![r] = 1]
                  /\ answers_with_sources' = [answers_with_sources EXCEPT ![r] = <<>>]
             ELSE /\ Finish(r, InternalError)
                  /\ UNCHANGED <<i, answers_with_sources>>
    /\ UNCHANGED <<app, req, questions, document_url, file, source, tmp_file_path,
                   documents, fs, nextTmp>>

\* one pass of the loop body over questions[i]
ProcessQuestion(r) ==
    /\ pc[r] = "loop"
    /\ i[r] <= Len(questions[r].items)
    /\ LET question == questions[r].items[i[r]]
       IN IF ~Sliceable(question)
          THEN /\ answers_with_sources' =
                     [answers_with_sources EXCEPT ![r] = OnQuestionError(@, question)]
               /\ UNCHANGED ops
          ELSE \E outcome \in {"ok", "raises"} :
                  /\ Did(r, "query", i[r], outcome)
                  /\ answers_with_sources' =
                         [answers_with_sources EXCEPT ![r] =
                             IF outcome = "ok"
                             THEN OnQuestionAnswered(@, question, app = "main")
                             ELSE OnQuestionError(@, question)]
    /\ i' = [i EXCEPT ![r] = @ + 1]
    /\ UNCHANGED <<app, req, pc, questions, document_url, file, source, tmp_file_path,
                   documents, response, fs, nextTmp>>

\* return HackathonResponse(answers=answers_with_sources)
Respond(r) ==
    /\ pc[r] = "loop"
    /\ i[r] > Len(questions[r].items)
    /\ Finish(r, HackathonResponse(answers_with_sources[r]))
    /\ UNCHANGED <<app, req, questions, document_url, file, source, tmp_file_path,
                   documents, i, answers_with_sources, fs, nextTmp, ops>>

Next ==
    \E r \in Workers :
        \/ Dispatch(r)
        \/ ParseRequest(r)
        \/ SelectDocument(r)
        \/ Fetch(r)
        \/ WriteTempFile(r)
        \/ Extract(r)
        \/ BuildIndex(r)
        \/ CreateEngine(r)
        \/ ProcessQuestion(r)
        \/ Respond(r)

Spec == Init /\ [][Next]_vars

(* ----------------------- concurrent requests ---------------------------- *)
\* a JSON request with a document URL and two questions
JsonUrlRequest ==
    [authorization |-> expected_token, content_type |-> "application/json",
     body |-> [kind |-> "json", form |-> <<>>,
               data |-> [isDict |-> TRUE, questions |-> List(<<Str("q1"), Str("q2")>>),
                         documents |-> Str("https://h/d.pdf"),
                         document_url |-> Missing]]]
\* a multipart request with an uploaded file and one question
UploadRequest ==
    [authorization |-> expected_token,
     content_type |-> "multipart/form-data; boundary=x",
     body |-> [kind |-> "form", data |-> NoData,
               form |-> <<[key |-> "questions", value |-> Str("q2")],
                          [key |-> "file", value |-> UploadFile("d.pdf")]>>]]
ConcRequests == {JsonUrlRequest, UploadRequest}

\* Every worker of the server has a request of its own, all in progress at once.
InitConc ==
    /\ app \in Apps
    /\ req \in [Workers -> ConcRequests]
    /\ pc = [r \in Workers |-> "dispatch"]
    /\ questions = [r \in Workers |-> None]
    /\ document_url = [r \in Workers |-> None]
    /\ file = [r \in Workers |-> None]
    /\ source = [r \in Workers |-> "none"]
    /\ tmp_file_path = [r \in Workers |-> 0]
    /\ documents = [r \in Workers |-> <<>>]
    /\ i = [r \in Workers |-> 0]
    /\ answers_with_sources = [r \in Workers |-> <<>>]
    /\ response = [r \in Workers |-> NoResponse]
    /\ fs = {}
    /\ nextTmp = 1
    /\ ops = [r \in Workers |-> <<>>]

SpecConc == InitConc /\ [][Next]_vars

(* ------------------------------ the claims ----------------------------- *)
Done(r) == pc[r] = "done"
Authenticated(r) == req[r].authorization = expected_token
\* the positions in the worker's log of its calls of one collaborator
Calls(r, name) == {j \in 1..Len(ops[r]) : ops[r][j].op = name}
\* the questions whose query was issued, and those whose query raised
Queried(r) == {ops[r][j].n : j \in Calls(r, "query")}
QueryRaised(r) == {ops[r][j].n : j \in {k \in Calls(r, "query") : ops[r][k].outcome = "raises"}}
\* the question list the client sent in a JSON body, else the list the handler read
RequestQuestions(r) ==
    IF req[r].body.kind = "json" THEN req[r].body.data.questions ELSE questions[r]

Answering(r) == \E j \in Calls(r, "engine") : ops[r][j].outcome = "ok"
\* no external work was done for the request
NoWork(r) == ops[r] = <<>> /\ \A f \in fs : f.owner # r

\* C2: once the Answering stage is reached, whatever subset of the queries
\* raises, the request returns 200, exactly the slots of the questions whose
\* query raised hold an error string, every other slot holds a normal answer,
\* and every question after a failing one is still queried.
C2_PerQuestionIsolation ==
    \A r \in Workers :
        (Done(r) /\ Answering(r)) =>
            /\ response[r].status = 200
            /\ Len(response[r].answers) = Len(questions[r].items)
            /\ \A k \in 1..Len(response[r].answers) :
                  response[r].answers[k].kind = "error" <=> k \in QueryRaised(r)
            /\ \A k \in QueryRaised(r) :
                  \A j \in (k + 1)..Len(questions[r].items) : j \in Queried(r)

\* C3: when a request has ended, whether its load succeeded or failed at the
\* fetch, the write or the extraction, no temporary file it created remains.
C3_NoTempFileRemains ==
    \A r \in Workers : Done(r) => \A f \in fs : f.owner # r

\* the request carries a question list that is missing, empty or not a list
BadQuestionList(rq) ==
    \/ /\ rq.body.kind = "json"
       /\ rq.body.data.isDict
       /\ \/ rq.body.data.questions.ty # "list"
          \/ rq.body.data.questions.items = <<>>
    \/ /\ rq.body.kind = "form"
       /\ \/ FormQuestions(rq.body.form).ty # "list"
          \/ FormQuestions(rq.body.form).items = <<>>

\* C4: an authenticated request whose question list is empty, missing or not a
\* list ends with status 400, and no fetch, temporary file, index build or
\* query was performed for it.
C4_BadQuestionsRejected ==
    \A r \in Workers :
        (Done(r) /\ Authenticated(r) /\ BadQuestionList(req[r])) =>
            response[r].status = 400 /\ NoWork(r)

\* C5: a request whose Authorization header is missing or differs from
\* "Bearer <secret>" ends with status 401 and no fetch, temporary file, index
\* build or query occurs for it; a request with the correct header is never
\* answered 401.
C5_AuthGate ==
    \A r \in Workers :
        Done(r) =>
            IF Authenticated(r) THEN response[r].status # 401
            ELSE response[r].status = 401 /\ NoWork(r)

\* a step of the Document Loader failed for the request
LoaderFailed(r) ==
    \E j \in Calls(r, "fetch") \cup Calls(r, "tmpfile") \cup Calls(r, "extract") :
        ops[r][j].outcome # "ok"
IndexRaised(r) == \E j \in Calls(r, "index") : ops[r][j].outcome = "raises"
EngineRaised(r) == \E j \in Calls(r, "engine") : ops[r][j].outcome = "raises"
NoIndexNoQuery(r) ==
    Calls(r, "index") = {} /\ Calls(r, "engine") = {} /\ Calls(r, "query") = {}

\* C6: when the Document Loader fails (fetch error, non-2xx status, temp-file
\* write error or extraction error) the request ends with status 400 and
\* neither the Index Builder nor the Answer Generator is called.
C6_LoadFailureIs400 ==
    \A r \in Workers :
        LoaderFailed(r) =>
            /\ Done(r)
            /\ response[r].status = 400
            /\ response[r].body = "detail"
            /\ NoIndexNoQuery(r)

\* a request that ended after its document URL answered 404
C6_Witness ==
    \E r \in Workers :
        /\ Done(r)
        /\ \E j \in Calls(r, "fetch") : ops[r][j].outcome = "status_404"

\* C7: when index construction fails the request ends with status 500 and
\* body {"detail": message}, no query is issued for any question and no
\* answers list is returned.
C7_IndexFailureIs500 ==
    \A r \in Workers :
        IndexRaised(r) =>
            /\ Done(r)
            /\ response[r].status = 500
            /\ response[r].body = "detail"
            /\ response[r].detail = "Failed to create document index"
            /\ response[r].answers = <<>>
            /\ Calls(r, "query") = {}

\* a request with two questions that ended after its index construction raised
C7_Witness ==
    \E r \in Workers :
        Done(r) /\ IndexRaised(r) /\ Len(questions[r].items) = 2

\* the handler read the request, and found neither an upload nor an http(s) URL
NoUsableDocument(r) ==
    /\ questions[r].ty = "list"
    /\ file[r].ty # "upload"
    /\ ~(document_url[r].ty = "str" /\ StartsWithHttp(document_url[r].s))

\* C8: a request with neither a usable upload nor a document URL that starts
\* with http:// or https:// ends with the 400 "no valid document" response,
\* and no network request and no filesystem operation is attempted for it.
C8_NoDocumentRejected ==
    \A r \in Workers :
        (Done(r) /\ NoUsableDocument(r)) =>
            response[r] = NoDocument /\ NoWork(r)

\* C9: an authenticated request whose Content-Type is neither JSON nor
\* multipart ends with status 400 and a message naming the accepted content
\* types, and no document load, index build or query is performed.
C9_ContentTypeRejected ==
    \A r \in Workers :
        (/\ Done(r)
         /\ Authenticated(r)
         /\ ~IsJsonType(req[r].content_type)
         /\ ~IsMultipartType(req[r].content_type)) =>
            /\ response[r] = HTTPException(400,
                   "Content-Type must be application/json or multipart/form-data")
            /\ NoWork(r)

\* C10: an exception raised outside the per-question loop and outside the
\* load and index steps (here: creating the query engine) ends the request
\* with status 500, and every authenticated request ends with 200, 400 or 500.
C10_CatchAll ==
    \A r \in Workers :
        (Done(r) /\ Authenticated(r)) =>
            /\ response[r].status \in {200, 400, 500}
            /\ EngineRaised(r) => response[r] = InternalError

\* the form fields that carry questions, in the order sent
RECURSIVE QuestionFields(_)
QuestionFields(form) ==
    IF form = <<>> THEN <<>>
    ELSE (IF StartsWithQuestion(Head(form).key) THEN <<Head(form)>> ELSE <<>>)
             \o QuestionFields(Tail(form))

\* the form sends its questions as one JSON-encoded list in a `questions` field
SendsJsonList(form) ==
    /\ Len(QuestionFields(form)) = 1
    /\ QuestionFields(form)[1].key = "questions"
    /\ QuestionFields(form)[1].value = Str(JsonListText)

\* the form sends one plain-text question per field: repeated `questions`
\* fields, or fields named question1, question2, ...
SendsOnePerField(form) ==
    LET qf == QuestionFields(form)
    IN /\ qf # <<>>
       /\ \A k \in 1..Len(qf) : ~JsonLoads(qf[k].value.s).ok
       /\ \/ \A k \in 1..Len(qf) : qf[k].key = "questions"
          \/ \A k \in 1..Len(qf) : qf[k].key # "questions"

\* the questions the client supplied, in the order supplied
SuppliedQuestions(form) ==
    IF SendsJsonList(form) THEN <<Str("q1"), Str("q2")>>
    ELSE [k \in 1..Len(QuestionFields(form)) |-> QuestionFields(form)[k].value]

\* the handler of improved_main.py has read the multipart form of the request
FormRead(r) ==
    /\ app = "improved"
    /\ Authenticated(r)
    /\ req[r].body.kind = "form"
    /\ pc[r] \notin {"idle", "dispatch", "handler"}

\* C11: for a multipart request the parsed question list holds every question
\* the client supplied, in the order supplied, both for one JSON-encoded
\* `questions` field and for one question per field (repeated `questions`
\* fields or fields prefixed `question`); a 200 response has one answer per
\* supplied question.
C11_FormQuestionsComplete ==
    \A r \in Workers :
        (/\ FormRead(r)
         /\ SendsJsonList(req[r].body.form) \/ SendsOnePerField(req[r].body.form)) =>
            /\ questions[r].items = SuppliedQuestions(req[r].body.form)
            /\ (Done(r) /\ response[r].status = 200) =>
                  Len(response[r].answers) = Len(SuppliedQuestions(req[r].body.form))

\* the outcome of the worker's call of a collaborator (for a query: of question n)
OutcomeOf(log, name, n) ==
    IF \E j \in 1..Len(log) : log[j].op = name /\ log[j].n = n
    THEN log[CHOOSE j \in 1..Len(log) : log[j].op = name /\ log[j].n = n].outcome
    ELSE "none"
LogFailed(log, names) ==
    \E j \in 1..Len(log) : log[j].op \in names /\ log[j].outcome # "ok"

\* the response of a request processed alone, from the request and the outcomes
\* of the collaborators it called itself
AloneResponse(a, rq, log, lenient) ==
    LET d == IF a = "main" THEN ResolveMain(rq, lenient) ELSE ResolveImproved(rq)
        p == IF a = "main" THEN ParseMain(rq) ELSE ParseImproved(rq)
        sel == IF a = "main" THEN SelectMain(p.file, p.document_url)
               ELSE SelectImproved(p.file, p.document_url)
        qs == p.questions.items
        answers == [k \in 1..Len(qs) |->
                       IF Sliceable(qs[k]) /\ OutcomeOf(log, "query", k) = "ok"
                       THEN Answer(qs[k], a = "main")
                       ELSE ErrorAnswer(qs[k])]
    IN IF d # NoResponse THEN d
       ELSE IF p.resp # NoResponse THEN p.resp
       ELSE IF sel.resp # NoResponse THEN sel.resp
       ELSE IF LogFailed(log, {"fetch", "tmpfile", "extract"}) THEN LoadFailed(sel.source)
       ELSE IF LogFailed(log, {"index"}) THEN IndexFailed
       ELSE IF LogFailed(log, {"engine"}) THEN InternalError
       ELSE HackathonResponse(answers)

\* the temporary files the worker's own log says it created and has not removed
OwnFilesByLog(r) ==
    {[id |-> ops[r][j].n, owner |-> r] :
        j \in {k \in Calls(r, "tmpfile") : ops[r][k].outcome # "create_fails"}}
      \ {[id |-> ops[r][j].n, owner |-> r] :
            j \in {k \in Calls(r, "extract") : ops[r][k].outcome = "ok"}}

\* C12: in every interleaving of concurrently processed requests, the temporary
\* files of a request on disk are exactly those it created and has not removed
\* itself, the file a request is about to read is its own and no other
\* request's, and its response is the one it gets when processed alone.
C12_RequestsIsolated ==
    \A r \in Workers :
        /\ {f \in fs : f.owner = r} = OwnFilesByLog(r)
        /\ (pc[r] = "extract" /\ source[r] # "path") =>
              {f \in fs : f.id = tmp_file_path[r]}
                  = {[id |-> tmp_file_path[r], owner |-> r]}
        /\ Done(r) =>
              response[r] \in {AloneResponse(app, req[r], ops[r], lenient) :
                                  lenient \in BOOLEAN}

\* two different requests are in the middle of their loads at once, each with
\* a temporary file of its own on disk
C12_Witness ==
    /\ pc[1] = "extract" /\ pc[2] = "extract"
    /\ Cardinality(fs) = 2
    /\ req[1] # req[2]

\* the place of a collaborator in the order load, index, answer
Rank(name) ==
    CASE name = "fetch" -> 1
      [] name = "tmpfile" -> 2
      [] name = "extract" -> 3
      [] name = "index" -> 4
      [] name = "engine" -> 5
      [] OTHER -> 6

\* the log runs load, then index, then the queries in question order, with no
\* call made twice and nothing called after a load or index call that failed
InOrderOnce(log) ==
    /\ \A j, k \in 1..Len(log) :
          j < k =>
              IF log[j].op = "query" /\ log[k].op = "query"
              THEN log[j].n < log[k].n
              ELSE Rank(log[j].op) < Rank(log[k].op)
    /\ \A j \in 1..Len(log) :
          (log[j].op # "query" /\ log[j].outcome # "ok") => j = Len(log)

\* C13: within one request the external operations run in the order document
\* load, index build, query of question 1 .. query of question N; the document
\* is loaded at most once, the index is built at most once, nothing is
\* attempted again after it failed, and when the Answering stage is reached
\* every question is queried exactly once.
C13_SequentialOnce ==
    \A r \in Workers :
        /\ InOrderOnce(ops[r])
        /\ (Done(r) /\ Answering(r)) => Queried(r) = 1..Len(questions[r].items)

\* the request was parsed with both an uploaded file and a document URL
BothSupplied(r) ==
    /\ pc[r] \notin {"idle", "dispatch", "parse"}
    /\ file[r].ty = "upload"
    /\ Truthy(document_url[r])

\* C14: when a request supplies both an uploaded file and a document_url, the
\* upload takes precedence: the URL is never fetched, the passages come from
\* the temporary copy of the upload only, and a failure to read the upload
\* ends the request at once with 400 "Failed to read uploaded file".
C14_UploadPrecedence ==
    \A r \in Workers :
        BothSupplied(r) =>
            /\ Calls(r, "fetch") = {}
            /\ source[r] \in {"none", "upload"}
            /\ ops[r] # <<>> => source[r] = "upload"
            /\ \A j \in 1..Len(ops[r]) :
                  ops[r][j].op = "extract" =>
                      /\ j = 2
                      /\ ops[r][1] = Op("tmpfile", ops[r][j].n, "ok")
            /\ LoaderFailed(r) =>
                  /\ Done(r)
                  /\ response[r] = HTTPException(400, "Failed to read uploaded file")
                  /\ ops[r][Len(ops[r])].outcome # "ok"

\* a request with an upload and an http URL whose upload could not be read
C14_Witness ==
    \E r \in Workers :
        /\ BothSupplied(r)
        /\ StartsWithHttp(document_url[r].s)
        /\ Done(r)
        /\ ops[r] = <<Op("tmpfile", tmp_file_path[r], "ok"), Op("extract", tmp_file_path[r], "raises")>>

====
